---- MODULE Spec2Model ----
(***************************************************************************)
(* A model of the riscv-pvm revm kernel: the inbox parser and kernel loop  *)
(* (kernel/src/main.rs), the operation authenticator (utils/src/crypto.rs),*)
(* the message producer (bench/src/generate.rs) and the durable-storage    *)
(* database KernelDB (kernel/src/database.rs).                             *)
(***************************************************************************)
EXTENDS Integers, Sequences, FiniteSets, TLC

VARIABLES
    inbox,      \* host: the round's raw messages, in delivery order
    cursor,     \* host: number of inbox messages already handed out by read_input
    readErrs,   \* host: number of read_input calls that returned Err so far
    pc,         \* entry: position of the kernel loop
    cur,        \* entry: the InboxResult being matched / the log about to be emitted
    pending,    \* entry: outcome of evm.transact awaiting commit (transact_commit)
    db,         \* entry: the CacheDB<EmptyDB> the evm was built with
    logs,       \* host: the lines written through debug_msg!
    executed,   \* history: the TxEnv values handed to evm.transact_commit, in order
    committed,  \* history: the TxEnv values whose state changes were committed
    durable,    \* host: durable storage, path -> bytes
    dbRet,      \* KernelDB: what the last Database call returned
    raw,        \* KernelDB: the last store_write / store_read made on a path
    signedOp,   \* authenticator: the encoded SignedOperation under test
    origin,     \* authenticator: the Operation that was signed, and what was altered since
    verdict,    \* authenticator: what SignedOperation::verify returned
    gen         \* generator: create_operations' accounts, loop position and messages

vars == <<inbox, cursor, readErrs, pc, cur, pending, db, logs, executed,
          committed, durable, dbRet, raw, signedOp, origin, verdict, gen>>

kernelVars == <<inbox, cursor, readErrs, pc, cur, pending, db, logs, executed, committed>>
kernelVars_but_pc == <<inbox, cursor, readErrs, cur, pending, db, logs, executed, committed>>
storeVars == <<durable, dbRet, raw>>
authVars == <<signedOp, origin, verdict>>
genVars == <<gen>>

----
\* Bounds of the model
MaxInbox == 2
MaxReadErrs == 1

\* Key pairs, EVM addresses and nonces used by message producers
Keys == {1, 2}
Address == {1, 2}
Nonces == {0, 1}
TxKinds == {"Create", "Call"}

\* host.reveal_metadata().address(): this kernel's rollup, and a foreign one
RollupAddress == 1
OtherRollup == 2

----
\* Operation(TxEnv): the fields operation_to_message sets
Ops == [kind : TxKinds, caller : Address, nonce : Nonces]

NoOp == [kind |-> "None", caller |-> 0, nonce |-> 0]

KindTag(kind) == IF kind = "Create" THEN 0 ELSE 1

\* bincode::serde::encode_to_vec(TxEnv)
EncodeOp(op) == <<KindTag(op.kind), op.caller, op.nonce>>

\* tezos_crypto_rs::blake2b::digest_256, as a positional fold of the bytes
RECURSIVE digest_256(_)
digest_256(bytes) ==
    IF bytes = <<>> THEN 1
    ELSE (digest_256(SubSeq(bytes, 1, Len(bytes) - 1)) * 7 + bytes[Len(bytes)]) % 1009

\* Operation::hash
hash(op) == digest_256(EncodeOp(op))

\* SecretKey::sign: a signature names its signer and the digest signed
sign(sk, digest) == [signer |-> sk, digest |-> digest]

\* keypair_from_passphrase: key pair k is (sk = k, pk = k)
PublicKeyOf(sk) == sk

\* a verification that checks the signer's key only, not the digest signed
SignatureVerify_key_only(sig, pk, digest) == PublicKeyOf(sig.signer) = pk

\* Signature::verify(public_key, message)
SignatureVerify(sig, pk, digest) == PublicKeyOf(sig.signer) = pk /\ sig.digest = digest

\* SignedOperation::new
SignedOperationNew(pk, sig, op) == [public_key |-> pk, signature |-> sig, inner |-> op]

\* SignedOperation::verify: Ok(inner) or Err
verify(so) ==
    IF SignatureVerify(so.signature, so.public_key, hash(so.inner))
    THEN [ok |-> TRUE, op |-> so.inner]
    ELSE [ok |-> FALSE, op |-> NoOp]

----
\* Wire format.  A raw inbox message is a sequence of bytes:
\*   <<0, t>>                       internal message with tag t
\*   <<1, 0, address>> \o contents  external message, Targetted frame
\* and contents is the bincode encoding of a SignedOperation.

\* bincode::serde::encode_to_vec(&signed_op)
EncodeSignedOp(so) ==
    <<so.public_key, so.signature.signer, so.signature.digest>> \o EncodeOp(so.inner)

\* bincode::serde::decode_from_slice::<SignedOperation>
DecodeSignedOp(contents) ==
    IF /\ Len(contents) >= 6
       /\ contents[1] \in Keys
       /\ contents[2] \in Keys
       /\ contents[4] \in {0, 1}
       /\ contents[5] \in Address
       /\ contents[6] \in Nonces
    THEN [ok |-> TRUE,
          so |-> SignedOperationNew(
                    contents[1],
                    [signer |-> contents[2], digest |-> contents[3]],
                    [kind |-> IF contents[4] = 0 THEN "Create" ELSE "Call",
                     caller |-> contents[5], nonce |-> contents[6]])]
    ELSE [ok |-> FALSE,
          so |-> SignedOperationNew(0, [signer |-> 0, digest |-> 0], NoOp)]

\* ExternalMessageFrame::Targetted{address, contents}.bin_write
FrameWrite(address, contents) == <<0, address>> \o contents

\* ExternalMessageFrame::parse
FrameParse(bytes) ==
    IF Len(bytes) >= 2 /\ bytes[1] = 0
    THEN [ok |-> TRUE, address |-> bytes[2], contents |-> SubSeq(bytes, 3, Len(bytes))]
    ELSE [ok |-> FALSE, address |-> 0, contents |-> <<>>]

\* Message::External{external}: the host prefixes the external tag
ExternalMessage(external) == <<1>> \o external

\* InboxMessage::parse: the envelope
InboxMessageParse(input) ==
    IF Len(input) >= 2 /\ input[1] = 0 /\ input[2] \in 0..3
    THEN [ok |-> TRUE, kind |-> "Internal",
          internal |-> CASE input[2] = 0 -> "Transfer"
                         [] input[2] = 1 -> "StartOfLevel"
                         [] input[2] = 2 -> "EndOfLevel"
                         [] OTHER -> "InfoPerLevel",
          bytes |-> <<>>]
    ELSE IF Len(input) >= 1 /\ input[1] = 1
    THEN [ok |-> TRUE, kind |-> "External", internal |-> "None",
          bytes |-> SubSeq(input, 2, Len(input))]
    ELSE [ok |-> FALSE, kind |-> "None", internal |-> "None", bytes |-> <<>>]

----
\* The message producer (bench/src/generate.rs)

\* struct Account: account i holds key pair i and EVM address i
Account(i) == [sk |-> i, pk |-> PublicKeyOf(i), address |-> i, nonce |-> 0]

\* Account::operation_to_message, the signing half: the TxEnv for the account's
\* current nonce, signed with the account's secret key
signed_operation(acc, kind) ==
    LET tx == [kind |-> kind, caller |-> acc.address, nonce |-> acc.nonce]
        sig == sign(acc.sk, hash(tx))
    IN SignedOperationNew(acc.pk, sig, tx)

\* Account::operation_to_message, the framing half
operation_to_message(acc, rollup_addr, kind) ==
    ExternalMessage(FrameWrite(rollup_addr, EncodeSignedOp(signed_operation(acc, kind))))

\* MINTER: an address that no account 0..len has
MINTER == 153

\* create_operations' minter (keys of the passphrase "foobar") and account i (keys
\* of the passphrase i, address i)
Minter == [sk |-> MINTER, pk |-> PublicKeyOf(MINTER), address |-> MINTER, nonce |-> 0]

\* f64::sqrt(transfers as f64).ceil() as usize, and the floor in its place
CeilSqrt(n) == CHOOSE s \in 0..n : s * s >= n /\ \A t \in 0..(s - 1) : t * t < n

FloorSqrt(n) == CHOOSE s \in 0..n : s * s <= n /\ (s + 1) * (s + 1) > n

\* a number of accounts taken from the floor of the square root
accounts_for_transfers_floor(transfers) == FloorSqrt(transfers) + 1

\* accounts_for_transfers
accounts_for_transfers(transfers) == CeilSqrt(transfers) + 1

\* the generator before create_operations is called
NoGen ==
    [transfers |-> 0, len |-> 0, phase |-> "None", minter |-> Minter, accounts |-> <<>>,
     messages |-> <<>>, expected_len |-> 0, i |-> 0, iter |-> 0]

\* a message pushed by create_operations: what it calls, the TxEnv signed and
\* the message operation_to_message built
Pushed(call, to, value, acc, kind) ==
    [call |-> call, to |-> to, value |-> value,
     tx |-> signed_operation(acc, kind).inner,
     message |-> operation_to_message(acc, RollupAddress, kind)]

\* self.nonce += 1
Bumped(acc) == [acc EXCEPT !.nonce = @ + 1]

----
\* The inbox parser (kernel/src/main.rs)

\* utils::data_interface::LogType
LogType(tag, text) == [tag |-> tag, text |-> text]

NoLog == LogType("None", "")

\* enum InboxResult
InboxEmpty == [kind |-> "InboxEmpty", log |-> NoLog, tx |-> NoOp]

Log(log) == [kind |-> "Log", log |-> log, tx |-> NoOp]

TxEnv(tx) == [kind |-> "TxEnv", log |-> NoLog, tx |-> tx]

\* an Err arm that gives up on the inbox instead of logging
to_inbox_result_err_halting(e) == InboxEmpty

\* to_inbox_result, the Err arm: every failure becomes a Log(Error)
to_inbox_result_err(e) == Log(LogType("Error", e))

\* a closure that takes the operation without verifying the signature
verified_to_result_unchecked(signed_op) == TxEnv(signed_op.inner)

\* the closure applied to a decoded SignedOperation
verified_to_result(signed_op) ==
    LET v == verify(signed_op)
    IN IF v.ok THEN TxEnv(v.op) ELSE to_inbox_result_err("verification failed")

\* a closure that does not compare the frame's address with the rollup's
frame_to_result_any_target(frame, rollup_address_hash) ==
    LET d == DecodeSignedOp(frame.contents)
    IN IF d.ok THEN TxEnv(d.so.inner) ELSE Log(LogType("Error", "DecodeError"))

\* the closure applied to a parsed Targetted frame
frame_to_result(frame, rollup_address_hash) ==
    IF rollup_address_hash # frame.address
    THEN Log(LogType("Info", "Skipping message: External message targets another rollup"))
    ELSE LET d == DecodeSignedOp(frame.contents)
         IN IF d.ok THEN verified_to_result(d.so)
            ELSE to_inbox_result_err("DecodeError")

\* a match with the level markers swapped
internal_to_result_swapped(msg) ==
    CASE msg = "StartOfLevel" -> Log(LogType("EndOfLevel", ""))
      [] msg = "InfoPerLevel" -> Log(LogType("Info", "Internal message: level info"))
      [] msg = "EndOfLevel" -> Log(LogType("StartOfLevel", ""))
      [] OTHER -> Log(LogType("Info", "Internal message: transfer"))

\* the match on InternalInboxMessage
internal_to_result(msg) ==
    CASE msg = "StartOfLevel" -> Log(LogType("StartOfLevel", ""))
      [] msg = "InfoPerLevel" -> Log(LogType("Info", "Internal message: level info"))
      [] msg = "EndOfLevel" -> Log(LogType("EndOfLevel", ""))
      [] OTHER -> Log(LogType("Info", "Internal message: transfer"))

\* host.read_input(): Err, Ok(None) or Ok(Some(input))
ReadErr == [status |-> "Err", input |-> <<>>]

ReadNone == [status |-> "None", input |-> <<>>]

ReadSome(input) == [status |-> "Some", input |-> input]

\* get_inbox_message, applied to what host.read_input() returned
get_inbox_message(read, rollup_address_hash) ==
    IF read.status = "Err" THEN to_inbox_result_err("RuntimeError")
    ELSE IF read.status = "None" THEN InboxEmpty
    ELSE LET m == InboxMessageParse(read.input)
         IN IF ~m.ok THEN to_inbox_result_err("ParseError: envelope")
            ELSE IF m.kind = "External"
            THEN LET f == FrameParse(m.bytes)
                 IN IF f.ok THEN frame_to_result(f, rollup_address_hash)
                    ELSE to_inbox_result_err("ParseError: frame")
            ELSE internal_to_result(m.internal)

----
\* The execution engine over CacheDB<EmptyDB> (revm, called at main.rs:113)

\* CacheDB::default(): no account has a nonce, no contract is deployed
EmptyCacheDB == [nonce |-> [a \in Address |-> 0], contracts |-> {}]

\* evm.transact: the results the engine can produce for tx in state d.  A
\* transaction whose nonce is not the caller's is rejected (Err); an accepted one
\* succeeds, reverts or halts.
EngineOutcomes(d, tx) ==
    IF tx.nonce # d.nonce[tx.caller] THEN {"Err"}
    ELSE IF tx.kind = "Create" THEN {"SuccessCreate", "Revert", "Halt"}
    ELSE {"SuccessCall", "Revert", "Halt"}

\* CacheDB::commit of the state an accepted transaction returns: the caller's
\* nonce is bumped; a successful create adds the contract
CommitState(d, tx, result) ==
    [nonce |-> [d.nonce EXCEPT ![tx.caller] = @ + 1],
     contracts |-> IF result = "SuccessCreate"
                   THEN d.contracts \cup {<<tx.caller, tx.nonce>>}
                   ELSE d.contracts]

\* a handle_res that logs every result as a successful call
handle_res_all_execute(res) == LogType("Execute", "bytes")

\* handle_res
handle_res(res) ==
    CASE res = "SuccessCreate" -> LogType("Deploy", "")
      [] res = "SuccessCall" -> LogType("Execute", "bytes")
      [] res = "Revert" -> LogType("Error", "Smart contract execution reverted")
      [] OTHER -> LogType("Error", "Halt: reason")

NoPending == [tx |-> NoOp, result |-> "None"]

----
\* The raw messages a public inbox can carry

InternalMessages == {<<0, t>> : t \in 0..3}

\* an envelope with an unknown tag
BadEnvelope == <<2>>

\* an external message whose frame has an unknown tag
BadFrame == ExternalMessage(<<9>>)

\* an external message for this rollup whose contents are no SignedOperation
BadContents == ExternalMessage(FrameWrite(RollupAddress, <<9>>))

SignedMessage(rollup_addr, so) == ExternalMessage(FrameWrite(rollup_addr, EncodeSignedOp(so)))

\* what the producer's accounts emit (generate.rs), at any of their nonces
HonestMessages ==
    {operation_to_message([Account(i) EXCEPT !.nonce = n], RollupAddress, k) :
        i \in Keys, n \in Nonces, k \in TxKinds}

\* messages broadcast to another rollup: a well-signed operation, and junk
ForeignMessages ==
    {operation_to_message(Account(1), OtherRollup, "Create"),
     ExternalMessage(FrameWrite(OtherRollup, <<9>>))}

\* forgeries built from account 1's create at nonce 0
ForgedMessages ==
    LET op == [kind |-> "Create", caller |-> 1, nonce |-> 0]
        good == sign(1, hash(op))
    IN {\* a corrupted signature
        SignedMessage(RollupAddress,
            SignedOperationNew(1, [good EXCEPT !.digest = (@ + 1) % 1009], op)),
        \* a signature made with another key than the public key carried
        SignedMessage(RollupAddress, SignedOperationNew(1, sign(2, hash(op)), op)),
        \* the operation changed after signing
        SignedMessage(RollupAddress,
            SignedOperationNew(1, good, [op EXCEPT !.nonce = 1])),
        \* key pair 2 signing an operation whose caller is account 1's address
        SignedMessage(RollupAddress, SignedOperationNew(2, sign(2, hash(op)), op))}

RawMessages ==
    InternalMessages \cup {BadEnvelope, BadFrame, BadContents} \cup ForeignMessages
        \cup HonestMessages \cup ForgedMessages

RECURSIVE SeqsUpTo(_, _)
SeqsUpTo(S, n) ==
    IF n = 0 THEN {<<>>}
    ELSE LET shorter == SeqsUpTo(S, n - 1)
         IN shorter \cup {Append(q, x) : q \in {r \in shorter : Len(r) = n - 1}, x \in S}

----
\* The durable-storage database (kernel/src/database.rs)

\* MAX_FILE_CHUNK_SIZE, scaled down: the most bytes one host read or write moves
MAX_CHUNK == 2

Min(a, b) == IF a < b THEN a ELSE b

\* revm::primitives::keccak256, as a positional fold of the bytes
RECURSIVE keccak256(_)
keccak256(bytes) ==
    IF bytes = <<>> THEN 1
    ELSE (keccak256(SubSeq(bytes, 1, Len(bytes) - 1)) * 11 + bytes[Len(bytes)]) % 1013

\* the hash of the empty code, and the all-zero hash
KECCAK_EMPTY == keccak256(<<>>)

ZeroHash == 0

\* Bytecode::is_empty and Bytecode::hash_slow
is_empty(code) == Len(code) = 0

hash_slow(code) == IF is_empty(code) THEN KECCAK_EMPTY ELSE keccak256(code)

\* Option<Bytecode>
None == [some |-> FALSE, bytes |-> <<>>]

Some(code) == [some |-> TRUE, bytes |-> code]

\* AccountInfo::default(): no balance, no nonce, the empty code and its hash
DefaultAccountInfo ==
    [balance |-> 0, nonce |-> 0, code_hash |-> KECCAK_EMPTY, code |-> Some(<<>>)]

\* bincode::serde::encode_to_vec of a Bytecode, an AccountInfo and a U256
EncodeBytecode(code) == <<Len(code)>> \o code

EncodeAccountInfo(info) ==
    <<info.balance, info.nonce, info.code_hash>>
        \o (IF info.code.some THEN <<1>> \o EncodeBytecode(info.code.bytes) ELSE <<0>>)

EncodeU256(value) == <<value>>

\* bincode::serde::decode_from_slice: bytes after the value are not looked at
DecodeBytecode(buf) ==
    IF Len(buf) >= 1 /\ Len(buf) >= 1 + buf[1]
    THEN [ok |-> TRUE, code |-> SubSeq(buf, 2, 1 + buf[1])]
    ELSE [ok |-> FALSE, code |-> <<>>]

DecodeAccountInfo(buf) ==
    IF Len(buf) >= 4 /\ buf[4] = 0
    THEN [ok |-> TRUE,
          info |-> [balance |-> buf[1], nonce |-> buf[2], code_hash |-> buf[3],
                    code |-> None]]
    ELSE IF Len(buf) >= 5 /\ buf[4] = 1 /\ DecodeBytecode(SubSeq(buf, 5, Len(buf))).ok
    THEN [ok |-> TRUE,
          info |-> [balance |-> buf[1], nonce |-> buf[2], code_hash |-> buf[3],
                    code |-> Some(DecodeBytecode(SubSeq(buf, 5, Len(buf))).code)]]
    ELSE [ok |-> FALSE, info |-> DefaultAccountInfo]

DecodeU256(buf) ==
    IF Len(buf) >= 1 THEN [ok |-> TRUE, value |-> buf[1]]
    ELSE [ok |-> FALSE, value |-> 0]

\* PathBuilder: the variants, by which the model's store is keyed
Info(addr) == <<"i", addr>>

Code(code_hash) == <<"c", code_hash>>

Storage(addr, key) == <<"s", addr, key>>

IsPrefix(prefix, path) ==
    Len(prefix) <= Len(path) /\ SubSeq(path, 1, Len(prefix)) = prefix

\* The text of a path.  fmt::Debug of an Address and of a B256 is "0x" and a fixed
\* number of hex digits (40 and 64, scaled down); fmt::Display of a U256 is its
\* decimal digits, as many as the value needs.
AddressHexLen == 2
B256HexLen == 3

HexDigit(d) ==
    <<"0", "1", "2", "3", "4", "5", "6", "7", "8", "9", "a", "b", "c", "d", "e", "f">>[d + 1]

RECURSIVE Hex(_, _)
Hex(n, width) ==
    IF width = 0 THEN <<>> ELSE Append(Hex(n \div 16, width - 1), HexDigit(n % 16))

RECURSIVE Decimal(_)
Decimal(n) ==
    IF n < 10 THEN <<HexDigit(n)>> ELSE Append(Decimal(n \div 10), HexDigit(n % 10))

AddressDebug(addr) == <<"0", "x">> \o Hex(addr, AddressHexLen)

B256Debug(code_hash) == <<"0", "x">> \o Hex(code_hash, B256HexLen)

\* a format that leaves the namespace prefix out
format_without_namespace(path) ==
    <<"/">>
        \o (IF path[1] = "c" THEN B256Debug(path[2]) ELSE AddressDebug(path[2]))
        \o (IF path[1] = "s" THEN <<"/">> \o Decimal(path[3]) ELSE <<>>)

\* PathBuilder::format: "/i/{addr:?}", "/c/{code_hash:?}", "/s/{addr:?}/{key}"
format(path) ==
    <<"/", path[1], "/">>
        \o (IF path[1] = "c" THEN B256Debug(path[2]) ELSE AddressDebug(path[2]))
        \o (IF path[1] = "s" THEN <<"/">> \o Decimal(path[3]) ELSE <<>>)

\* the host reads a path as the sequence of its segments, the texts between "/"
RECURSIVE Segments(_)
Segments(text) ==
    IF text = <<>> THEN <<>>
    ELSE LET init == Segments(SubSeq(text, 1, Len(text) - 1))
             c == text[Len(text)]
         IN IF c = "/" \/ init = <<>> THEN Append(init, <<>>)
            ELSE [init EXCEPT ![Len(init)] = Append(@, c)]

----
\* The host's durable storage, as the Runtime calls of database.rs use it.  A
\* context carries the store, the number of host calls that still succeed before
\* one fails (negative: none fails), whether a call has failed, the paths and
\* offsets of the store_write calls the host served, in order, the number of
\* calls the host served, and that number when a call first failed.

HostCtx(store, budget) ==
    [store |-> store, budget |-> budget, failed |-> FALSE, written |-> <<>>,
     served |-> 0, failed_at |-> 0]

HostCallFails(ctx) == ctx.budget = 0

Failed(ctx) ==
    [ctx EXCEPT !.failed = TRUE, !.budget = -1,
                !.failed_at = IF ctx.failed THEN @ ELSE ctx.served]

Spent(ctx) == [ctx EXCEPT !.budget = IF @ > 0 THEN @ - 1 ELSE @, !.served = @ + 1]

StorePut(store, path, bytes) ==
    [p \in DOMAIN store \cup {path} |-> IF p = path THEN bytes ELSE store[p]]

StoreRemove(store, paths) == [p \in DOMAIN store \ paths |-> store[p]]

\* host.store_write(path, chunk, at_offset): overwrites from at_offset on and keeps
\* the bytes of the old value beyond the chunk; at_offset may not exceed the size
host_store_write(ctx, path, chunk, at_offset) ==
    LET old == IF path \in DOMAIN ctx.store THEN ctx.store[path] ELSE <<>>
    IN IF HostCallFails(ctx) \/ at_offset > Len(old) THEN Failed(ctx)
       ELSE [Spent(ctx) EXCEPT !.store =
                StorePut(ctx.store, path,
                    SubSeq(old, 1, at_offset) \o chunk
                        \o SubSeq(old, at_offset + Len(chunk) + 1, Len(old))),
                               !.written = Append(@, [path |-> path, at_offset |-> at_offset])]

\* host.store_value_size(path): Ok(n), Err(PathNotFound) or another Err
host_store_value_size(ctx, path) ==
    IF HostCallFails(ctx) THEN [ctx |-> Failed(ctx), status |-> "Err", n |-> 0]
    ELSE IF path \notin DOMAIN ctx.store
    THEN [ctx |-> Spent(ctx), status |-> "PathNotFound", n |-> 0]
    ELSE [ctx |-> Spent(ctx), status |-> "Ok", n |-> Len(ctx.store[path])]

\* host.store_read_slice(path, from_offset, buffer)
host_store_read_slice(ctx, path, from_offset, to_offset) ==
    IF HostCallFails(ctx) \/ path \notin DOMAIN ctx.store
    THEN [ctx |-> Failed(ctx), bytes |-> <<>>]
    ELSE [ctx |-> Spent(ctx), bytes |-> SubSeq(ctx.store[path], from_offset + 1, to_offset)]

\* host.store_has(path): Some(_) when the path holds a value or a subtree
host_store_has(ctx, path) ==
    IF HostCallFails(ctx) THEN [ctx |-> Failed(ctx), is_some |-> FALSE]
    ELSE [ctx |-> Spent(ctx), is_some |-> \E p \in DOMAIN ctx.store : IsPrefix(path, p)]

\* host.store_delete(path): removes the value and the subtree; Err(PathNotFound)
\* when there is neither
host_store_delete(ctx, path) ==
    LET doomed == {p \in DOMAIN ctx.store : IsPrefix(path, p)}
    IN IF HostCallFails(ctx) \/ doomed = {} THEN Failed(ctx)
       ELSE [Spent(ctx) EXCEPT !.store = StoreRemove(ctx.store, doomed)]

----
\* KernelDB

\* store_write: the chunks of the serialized value, written in order at i * MAX_CHUNK;
\* the first failing host call ends the write
RECURSIVE write_chunks(_, _, _, _)
write_chunks(ctx, path, bytes, i) ==
    IF ctx.failed \/ i * MAX_CHUNK >= Len(bytes) THEN ctx
    ELSE write_chunks(
            host_store_write(ctx, path,
                SubSeq(bytes, i * MAX_CHUNK + 1, Min((i + 1) * MAX_CHUNK, Len(bytes))),
                i * MAX_CHUNK),
            path, bytes, i + 1)

\* a write that goes on to the next chunks after a chunk has failed
RECURSIVE write_chunks_past_failure(_, _, _, _)
write_chunks_past_failure(ctx, path, bytes, i) ==
    IF i * MAX_CHUNK >= Len(bytes) THEN ctx
    ELSE write_chunks_past_failure(
            host_store_write(ctx, path,
                SubSeq(bytes, i * MAX_CHUNK + 1, Min((i + 1) * MAX_CHUNK, Len(bytes))),
                i * MAX_CHUNK),
            path, bytes, i + 1)

store_write_past_failure(ctx, path, bytes) == write_chunks_past_failure(ctx, path, bytes, 0)

\* a write that stops after the first chunk
store_write_first_chunk(ctx, path, bytes) ==
    IF bytes = <<>> THEN ctx
    ELSE host_store_write(ctx, path, SubSeq(bytes, 1, Min(MAX_CHUNK, Len(bytes))), 0)

store_write(ctx, path, bytes) == write_chunks(ctx, path, bytes, 0)

\* store_read, the loop over 0..n.div_ceil(MAX_CHUNK) filling buf
RECURSIVE read_chunks(_, _, _, _, _)
read_chunks(ctx, path, n, i, buf) ==
    IF ctx.failed \/ i * MAX_CHUNK >= n THEN [ctx |-> ctx, bytes |-> buf]
    ELSE LET r == host_store_read_slice(ctx, path, i * MAX_CHUNK, Min(n, (i + 1) * MAX_CHUNK))
         IN read_chunks(r.ctx, path, n, i + 1, buf \o r.bytes)

\* store_read, before deserialization: Ok(None) for an absent path, the buffer read,
\* or Err
store_read(ctx, path) ==
    LET size == host_store_value_size(ctx, path)
    IN IF size.status = "PathNotFound"
       THEN [ctx |-> size.ctx, status |-> "None", bytes |-> <<>>]
       ELSE IF size.status = "Err"
       THEN [ctx |-> size.ctx, status |-> "Err", bytes |-> <<>>]
       ELSE LET r == read_chunks(size.ctx, path, size.n, 0, <<>>)
            IN [ctx |-> r.ctx,
                status |-> IF r.ctx.failed THEN "Err" ELSE "Some",
                bytes |-> r.bytes]

\* a materialization that writes nothing
insert_new_account_skipped(ctx, address) == ctx

\* insert_new_account
insert_new_account(ctx, address) ==
    store_write(ctx, Info(address), EncodeAccountInfo(DefaultAccountInfo))

\* clear_storage
clear_storage(ctx, address) == host_store_delete(ctx, Info(address))

\* an insert_contract that writes the code under the hash the account carries,
\* without hashing code that comes with the empty hash
insert_contract_unhashed(ctx, info) ==
    LET has_code == info.code.some /\ ~is_empty(info.code.bytes)
        written == IF has_code
                   THEN store_write(ctx, Code(info.code_hash), EncodeBytecode(info.code.bytes))
                   ELSE ctx
    IN [ctx |-> written,
        info |-> [info EXCEPT !.code_hash = IF @ = ZeroHash THEN KECCAK_EMPTY ELSE @]]

\* an insert_contract that settles the hash and writes no code
insert_contract_without_code(ctx, info) ==
    LET has_code == info.code.some /\ ~is_empty(info.code.bytes)
        hashed == IF has_code /\ info.code_hash = KECCAK_EMPTY
                  THEN hash_slow(info.code.bytes) ELSE info.code_hash
    IN [ctx |-> ctx,
        info |-> [info EXCEPT !.code_hash = IF hashed = ZeroHash THEN KECCAK_EMPTY ELSE hashed]]

\* insert_contract: the context after the code write, and the account info with
\* its code hash settled
insert_contract(ctx, info) ==
    LET has_code == info.code.some /\ ~is_empty(info.code.bytes)
        hashed == IF has_code /\ info.code_hash = KECCAK_EMPTY
                  THEN hash_slow(info.code.bytes) ELSE info.code_hash
        written == IF has_code
                   THEN store_write(ctx, Code(hashed), EncodeBytecode(info.code.bytes))
                   ELSE ctx
    IN [ctx |-> written,
        info |-> [info EXCEPT !.code_hash = IF hashed = ZeroHash THEN KECCAK_EMPTY ELSE hashed]]

\* commit_safe, the loop over account.storage
RECURSIVE write_storage(_, _, _)
write_storage(ctx, address, slots) ==
    IF ctx.failed \/ slots = <<>> THEN ctx
    ELSE write_storage(
            store_write(ctx, Storage(address, Head(slots).key),
                        EncodeU256(Head(slots).present_value)),
            address, Tail(slots))

\* a loop body that writes the record with the code it carries
commit_account_keeping_code(ctx, address, account) ==
    IF ~account.touched THEN ctx
    ELSE IF account.selfdestructed
    THEN LET reset == insert_new_account(ctx, address)
         IN IF reset.failed THEN reset ELSE clear_storage(reset, address)
    ELSE LET c == insert_contract(ctx, account.info)
         IN IF c.ctx.failed THEN c.ctx
            ELSE write_storage(
                    store_write(c.ctx, Info(address), EncodeAccountInfo(c.info)),
                    address, account.storage)

\* a loop body that commits an account whether or not it is marked touched
commit_account_ignoring_touched(ctx, address, account) ==
    IF account.selfdestructed
    THEN LET reset == insert_new_account(ctx, address)
         IN IF reset.failed THEN reset ELSE clear_storage(reset, address)
    ELSE LET c == insert_contract(ctx, account.info)
         IN IF c.ctx.failed THEN c.ctx
            ELSE write_storage(
                    store_write(c.ctx, Info(address),
                                EncodeAccountInfo([c.info EXCEPT !.code = None])),
                    address, account.storage)

\* commit_safe, the body of the loop over changes
commit_account(ctx, address, account) ==
    IF ~account.touched THEN ctx
    ELSE IF account.selfdestructed
    THEN LET reset == insert_new_account(ctx, address)
         IN IF reset.failed THEN reset ELSE clear_storage(reset, address)
    ELSE LET c == insert_contract(ctx, account.info)
         IN IF c.ctx.failed THEN c.ctx
            ELSE write_storage(
                    store_write(c.ctx, Info(address),
                                EncodeAccountInfo([c.info EXCEPT !.code = None])),
                    address, account.storage)

\* commit_safe: changes in the order the HashMap yields them; the context comes
\* back failed when a write returned Err
RECURSIVE commit_safe(_, _)
commit_safe(ctx, changes) ==
    IF ctx.failed \/ changes = <<>> THEN ctx
    ELSE commit_safe(commit_account(ctx, Head(changes).address, Head(changes).account),
                     Tail(changes))

\* What a Database call returns: Ok or Err (Panic for commit's unwrap), for Ok
\* the Option<AccountInfo>, the Bytecode or the U256, and for Err the KernelError
\* with the hash a MissingCode carries
NoValue == [is_some |-> FALSE, info |-> DefaultAccountInfo, code |-> <<>>, value |-> 0]

Ok(v) == [status |-> "Ok", error |-> "", hash |-> ZeroHash, v |-> v]

Err(e) == [status |-> "Err", error |-> e, hash |-> ZeroHash, v |-> NoValue]

\* KernelError::MissingCode(code_hash)
MissingCode(code_hash) == [Err("MissingCode") EXCEPT !.hash = code_hash]

\* a read_code that stores an empty code under the missing hash and returns it
code_by_hash_materializing(ctx, code_hash) ==
    LET r == store_read(ctx, Code(code_hash))
        d == DecodeBytecode(r.bytes)
        w == store_write(r.ctx, Code(code_hash), EncodeBytecode(<<>>))
    IN IF r.status = "None"
       THEN [ctx |-> w, ret |-> Ok([NoValue EXCEPT !.is_some = TRUE])]
       ELSE [ctx |-> r.ctx,
             ret |-> IF r.status = "Err" THEN Err("DurableStorage")
                     ELSE IF d.ok THEN Ok([NoValue EXCEPT !.is_some = TRUE, !.code = d.code])
                     ELSE Err("Decode")]

\* Database::basic
basic(ctx, address) ==
    LET r == store_read(ctx, Info(address))
        d == DecodeAccountInfo(r.bytes)
    IN IF r.status = "Err" THEN [ctx |-> r.ctx, ret |-> Err("DurableStorage")]
       ELSE IF r.status = "Some"
       THEN [ctx |-> r.ctx,
             ret |-> IF d.ok THEN Ok([NoValue EXCEPT !.is_some = TRUE, !.info = d.info])
                     ELSE Err("Decode")]
       ELSE LET w == insert_new_account(r.ctx, address)
            IN [ctx |-> w,
                ret |-> IF w.failed THEN Err("DurableStorage") ELSE Ok(NoValue)]

\* Database::code_by_hash
code_by_hash(ctx, code_hash) ==
    LET r == store_read(ctx, Code(code_hash))
        d == DecodeBytecode(r.bytes)
    IN [ctx |-> r.ctx,
        ret |-> IF r.status = "Err" THEN Err("DurableStorage")
                ELSE IF r.status = "None" THEN MissingCode(code_hash)
                ELSE IF d.ok THEN Ok([NoValue EXCEPT !.is_some = TRUE, !.code = d.code])
                ELSE Err("Decode")]

\* Database::storage
storage(ctx, address, index) ==
    LET r == store_read(ctx, Storage(address, index))
        d == DecodeU256(r.bytes)
    IN IF r.status = "Err" THEN [ctx |-> r.ctx, ret |-> Err("DurableStorage")]
       ELSE IF r.status = "Some"
       THEN [ctx |-> r.ctx,
             ret |-> IF d.ok THEN Ok([NoValue EXCEPT !.is_some = TRUE, !.value = d.value])
                     ELSE Err("Decode")]
       ELSE LET has == host_store_has(r.ctx, Info(address))
                w == IF has.is_some THEN insert_new_account(has.ctx, address) ELSE has.ctx
            IN IF has.ctx.failed THEN [ctx |-> has.ctx, ret |-> Err("DurableStorage")]
               ELSE [ctx |-> w,
                     ret |-> IF w.failed THEN Err("DurableStorage")
                             ELSE Ok([NoValue EXCEPT !.is_some = TRUE])]

\* DatabaseCommit::commit: commit_safe(changes).unwrap()
commit(ctx, changes) ==
    LET c == commit_safe(ctx, changes)
    IN [ctx |-> c,
        ret |-> IF c.failed THEN [Err("DurableStorage") EXCEPT !.status = "Panic"]
                ELSE Ok(NoValue)]

----
\* The durable store and the authenticator start idle
EmptyStore == [p \in {} |-> <<>>]

NoRet ==
    [calls |-> 0, faults |-> 0, op |-> "None", address |-> 0, index |-> 0,
     code_hash |-> 0, changes |-> <<>>, ret |-> Ok(NoValue), late |-> 0]

\* no store_write or store_read made yet
NoRaw == [calls |-> 0, op |-> "None", path |-> <<>>, data |-> <<>>, status |-> "None", bytes |-> <<>>]

NoOrigin == [op |-> NoOp, altered |-> "none"]

NoVerdict == [ok |-> FALSE, op |-> NoOp]

----
\* The kernel loop (entry, kernel/src/main.rs)

Init ==
    /\ inbox \in SeqsUpTo(RawMessages, MaxInbox)
    /\ cursor = 0
    /\ readErrs = 0
    /\ pc = "read"
    /\ cur = InboxEmpty
    /\ pending = NoPending
    /\ db = EmptyCacheDB
    /\ logs = <<>>
    /\ executed = <<>>
    /\ committed = <<>>
    /\ durable = EmptyStore
    /\ dbRet = NoRet
    /\ raw = NoRaw
    /\ signedOp = <<>>
    /\ origin = NoOrigin
    /\ verdict = NoVerdict
    /\ gen = NoGen

\* a match that leaves the loop on a Log result as well
MatchInboxResult_stop_on_log(res) ==
    CASE res.kind = "TxEnv" -> "transact"
      [] OTHER -> "done"

\* entry's match on the InboxResult: where the loop goes next
MatchInboxResult(res) ==
    CASE res.kind = "TxEnv" -> "transact"
      [] res.kind = "InboxEmpty" -> "done"
      [] OTHER -> "emit"

\* a transact that never commits
AfterTransact_no_commit(outcome) == "emit"

\* transact_commit: an accepted transaction's state is committed before its result
\* is handled; a rejected one (Err) goes straight to the error log
AfterTransact(outcome) == IF outcome = "Err" THEN "emit" ELSE "commit"

\* loop { match get_inbox_message(host, &rollup_address_hash) ... }, with the
\* host's read_input failing
ReadInputErr ==
    /\ pc = "read"
    /\ readErrs < MaxReadErrs
    /\ readErrs' = readErrs + 1
    /\ cur' = get_inbox_message(ReadErr, RollupAddress)
    /\ pc' = MatchInboxResult(cur')
    /\ UNCHANGED <<inbox, cursor, pending, db, logs, executed, committed>>
    /\ UNCHANGED <<storeVars, authVars, genVars>>

\* ... with the host handing out the next message
ReadInputSome ==
    /\ pc = "read"
    /\ cursor < Len(inbox)
    /\ cursor' = cursor + 1
    /\ cur' = get_inbox_message(ReadSome(inbox[cursor + 1]), RollupAddress)
    /\ pc' = MatchInboxResult(cur')
    /\ UNCHANGED <<inbox, readErrs, pending, db, logs, executed, committed>>
    /\ UNCHANGED <<storeVars, authVars, genVars>>

\* ... with the inbox exhausted
ReadInputNone ==
    /\ pc = "read"
    /\ cursor = Len(inbox)
    /\ cur' = get_inbox_message(ReadNone, RollupAddress)
    /\ pc' = MatchInboxResult(cur')
    /\ UNCHANGED <<inbox, cursor, readErrs, pending, db, logs, executed, committed>>
    /\ UNCHANGED <<storeVars, authVars, genVars>>

\* TxEnv(tx) => evm.transact_commit(tx): the execution
Transact ==
    /\ pc = "transact"
    /\ \E outcome \in EngineOutcomes(db, cur.tx) :
        /\ executed' = Append(executed, [tx |-> cur.tx, ok |-> outcome # "Err"])
        /\ pc' = AfterTransact(outcome)
        /\ IF outcome = "Err"
           THEN /\ cur' = Log(LogType("Error", "Unsuccessful transaction"))
                /\ pending' = NoPending
           ELSE /\ cur' = cur
                /\ pending' = [tx |-> cur.tx, result |-> outcome]
    /\ UNCHANGED <<inbox, cursor, readErrs, db, logs, committed>>
    /\ UNCHANGED <<storeVars, authVars, genVars>>

\* ... the commit of its state, then handle_res
Commit ==
    /\ pc = "commit"
    /\ db' = CommitState(db, pending.tx, pending.result)
    /\ committed' = Append(committed, pending.tx)
    /\ cur' = Log(handle_res(pending.result))
    /\ pending' = NoPending
    /\ pc' = "emit"
    /\ UNCHANGED <<inbox, cursor, readErrs, logs, executed>>
    /\ UNCHANGED <<storeVars, authVars, genVars>>

\* if let Ok(ser) = serde_json::to_string(&log) { debug_msg!(host, ...) }
Emit ==
    /\ pc = "emit"
    /\ logs' = Append(logs, cur.log)
    /\ pc' = "read"
    /\ UNCHANGED <<inbox, cursor, readErrs, cur, pending, db, executed, committed>>
    /\ UNCHANGED <<storeVars, authVars, genVars>>

Next ==
    \/ ReadInputErr
    \/ ReadInputSome
    \/ ReadInputNone
    \/ Transact
    \/ Commit
    \/ Emit

Spec == Init /\ [][Next]_vars

\* the host runs the kernel's loop to completion: it is never suspended
LiveSpec == Spec /\ WF_vars(Next)

----
\* Properties of the kernel loop and the inbox parser

\* the stages at which a raw message can fail, read off the wire format
EnvelopeFails(m) == ~InboxMessageParse(m).ok

IsExternal(m) == InboxMessageParse(m).ok /\ InboxMessageParse(m).kind = "External"

IsInternal(m) == InboxMessageParse(m).ok /\ InboxMessageParse(m).kind = "Internal"

FrameOf(m) == FrameParse(InboxMessageParse(m).bytes)

FrameFails(m) == IsExternal(m) /\ ~FrameOf(m).ok

ForeignTarget(m) == IsExternal(m) /\ FrameOf(m).ok /\ FrameOf(m).address # RollupAddress

OwnTarget(m) == IsExternal(m) /\ FrameOf(m).ok /\ FrameOf(m).address = RollupAddress

DecodeFails(m) == OwnTarget(m) /\ ~DecodeSignedOp(FrameOf(m).contents).ok

SignedOpOf(m) == DecodeSignedOp(FrameOf(m).contents).so

SignatureFails(m) ==
    /\ OwnTarget(m)
    /\ DecodeSignedOp(FrameOf(m).contents).ok
    /\ ~SignatureVerify(SignedOpOf(m).signature, SignedOpOf(m).public_key,
                        hash(SignedOpOf(m).inner))

FailsAtSomeStage(m) ==
    EnvelopeFails(m) \/ FrameFails(m) \/ ForeignTarget(m) \/ DecodeFails(m) \/ SignatureFails(m)

\* the step of the loop that reads inbox message number cursor'
Reads == pc = "read" /\ cursor' = cursor + 1

EngineAndStoresUntouched ==
    /\ executed' = executed
    /\ committed' = committed
    /\ db' = db
    /\ durable' = durable

LastLog == logs[Len(logs)]

\* C1: no single inbox message halts the kernel: reading a message that fails at
\* any stage yields a Log result, which the loop emits before going back to read
\* the next message, and the loop stops only on InboxEmpty.
C1_NoMessageHaltsKernel ==
    [][ /\ (Reads /\ FailsAtSomeStage(inbox[cursor'])) => (cur'.kind = "Log" /\ pc' = "emit")
        /\ (pc = "emit") => (pc' = "read" /\ logs' = Append(logs, cur.log))
        /\ (pc # "done" /\ pc' = "done") => (pc = "read" /\ cur'.kind = "InboxEmpty")
      ]_vars

\* a forged message was read and logged, and the loop is about to read the next one
C1_Witness ==
    /\ pc = "read"
    /\ cursor >= 1
    /\ cursor < Len(inbox)
    /\ SignatureFails(inbox[cursor])
    /\ Len(logs) >= 1
    /\ LastLog = LogType("Error", "verification failed")

\* C2: for every finite inbox the loop, run to completion, eventually obtains
\* InboxEmpty and stops for good; it stops only with the inbox exhausted, and the
\* host hands the messages out one at a time, each exactly once.
C2_LoopTerminates ==
    /\ <>[](pc = "done")
    /\ [](pc = "done" => (cursor = Len(inbox) /\ cur.kind = "InboxEmpty"))
    /\ [][cursor' \in {cursor, cursor + 1}]_vars

C2_Witness == pc = "done" /\ Len(inbox) >= 2 /\ cursor = Len(inbox) /\ Len(logs) >= 2

\* the transactions of the valid signed operations among msgs, in order
\* per raw message: the transaction of its valid signed operation, or none
ValidOpOf ==
    [m \in RawMessages |->
        IF FailsAtSomeStage(m) \/ IsInternal(m) THEN <<>> ELSE <<SignedOpOf(m).inner>>]

RECURSIVE ValidOps(_)
ValidOps(msgs) ==
    IF msgs = <<>> THEN <<>>
    ELSE ValidOpOf[Head(msgs)] \o ValidOps(Tail(msgs))

TxsOf(entries) == [i \in 1..Len(entries) |-> entries[i].tx]

AcceptedOf(entries) == TxsOf(SelectSeq(entries, LAMBDA e : e.ok))

\* C3: transactions are executed in inbox order (the k-th executed transaction is
\* the k-th valid signed operation read), and whenever the loop is about to read,
\* every accepted transaction executed so far has been committed; only the
\* transaction in flight can be uncommitted.
C3_InOrderCommitBeforeRead ==
    /\ TxsOf(executed) =
          ValidOps(SubSeq(inbox, 1, IF pc = "transact" THEN cursor - 1 ELSE cursor))
    /\ pc \in {"read", "emit", "done", "transact"} =>
          (committed = AcceptedOf(executed) /\ pending = NoPending)
    /\ pc = "commit" =>
          /\ executed # <<>>
          /\ pending.tx = executed[Len(executed)].tx
          /\ committed = AcceptedOf(SubSeq(executed, 1, Len(executed) - 1))

\* two different transactions were executed and committed, in inbox order
C3_Witness ==
    /\ pc = "read"
    /\ Len(committed) = 2
    /\ committed[1] # committed[2]
    /\ committed = ValidOps(inbox)

NamespacePaths(store, ns) == {p \in DOMAIN store : p[1] = ns}

\* C4: once a valid deploy has been processed (its Deploy record is emitted and
\* the loop is back at reading), the deployed account record and its code are in
\* host durable storage.
C4_DeployPersisted ==
    (pc \in {"read", "done"} /\ Len(logs) >= 1 /\ \E i \in 1..Len(logs) : logs[i].tag = "Deploy")
        => (NamespacePaths(durable, "i") # {} /\ NamespacePaths(durable, "c") # {})

\* the address derivable from a public key: the address of the account holding it
AddressOfKey(pk) == Account(pk).address

\* C5: a transaction handed to the engine has as caller the address of the
\* public key its SignedOperation verified under.
C5_CallerOwnsKey ==
    pc = "transact" => cur.tx.caller = AddressOfKey(SignedOpOf(inbox[cursor]).public_key)

\* C7: an external message for this rollup whose payload does not decode or whose
\* signature does not verify yields an Error log; the engine is not invoked for it
\* and no store changes.
C7_InvalidPayloadDiscarded ==
    [][ /\ (Reads /\ (DecodeFails(inbox[cursor']) \/ SignatureFails(inbox[cursor']))) =>
              /\ cur'.kind = "Log"
              /\ cur'.log.tag = "Error"
              /\ pc' = "emit"
              /\ EngineAndStoresUntouched
        /\ (pc = "emit" /\ cursor >= 1
                /\ (DecodeFails(inbox[cursor]) \/ SignatureFails(inbox[cursor]))) =>
              /\ pc' = "read"
              /\ EngineAndStoresUntouched
      ]_vars

\* an undecodable payload and a forged one were both logged as errors
C7_Witness ==
    /\ pc = "read"
    /\ Len(logs) = 2
    /\ logs[1] = LogType("Error", "DecodeError")
    /\ logs[2] = LogType("Error", "verification failed")
    /\ executed = <<>>

\* C8: an external message targeted at another rollup yields an Info log and never
\* a transaction, whatever its contents; no store changes.
C8_ForeignTargetSkipped ==
    [][ /\ (Reads /\ ForeignTarget(inbox[cursor'])) =>
              /\ cur'.kind = "Log"
              /\ cur'.log.tag = "Info"
              /\ pc' = "emit"
              /\ EngineAndStoresUntouched
        /\ (pc = "emit" /\ cursor >= 1 /\ ForeignTarget(inbox[cursor])) =>
              /\ pc' = "read"
              /\ EngineAndStoresUntouched
      ]_vars

\* a well-signed operation for another rollup was skipped with an Info record
C8_Witness ==
    /\ pc = "read"
    /\ cursor >= 1
    /\ ForeignTarget(inbox[cursor])
    /\ DecodeSignedOp(FrameOf(inbox[cursor]).contents).ok
    /\ ~SignatureFails(inbox[cursor])
    /\ Len(logs) >= 1
    /\ LastLog.tag = "Info"
    /\ executed = <<>>

\* the log marker of an internal message, read off its tag byte
InternalMarker(m) ==
    CASE m[2] = 1 -> "StartOfLevel"
      [] m[2] = 2 -> "EndOfLevel"
      [] OTHER -> "Info"

\* C9: internal messages never produce a transaction: StartOfLevel and EndOfLevel
\* map to their markers, InfoPerLevel and Transfer to Info; the engine is not
\* invoked and no store changes.
C9_InternalNeverTransaction ==
    [][ /\ (Reads /\ IsInternal(inbox[cursor'])) =>
              /\ cur'.kind = "Log"
              /\ cur'.log.tag = InternalMarker(inbox[cursor'])
              /\ pc' = "emit"
              /\ EngineAndStoresUntouched
        /\ (pc = "emit" /\ cursor >= 1 /\ IsInternal(inbox[cursor])) =>
              /\ pc' = "read"
              /\ EngineAndStoresUntouched
      ]_vars

\* a StartOfLevel and an EndOfLevel message were logged with their markers
C9_Witness ==
    /\ pc = "read"
    /\ inbox = <<(<<0, 1>>), (<<0, 2>>)>>
    /\ logs = <<LogType("StartOfLevel", ""), LogType("EndOfLevel", "")>>
    /\ executed = <<>>

----
\* The authenticator on its own: a producer signs an Operation
\* (operation_to_message), the encoded SignedOperation may be altered on its way,
\* and the kernel decodes and verifies it (get_inbox_message)

InitAuth ==
    /\ inbox = <<>>
    /\ cursor = 0
    /\ readErrs = 0
    /\ pc = "sign"
    /\ cur = InboxEmpty
    /\ pending = NoPending
    /\ db = EmptyCacheDB
    /\ logs = <<>>
    /\ executed = <<>>
    /\ committed = <<>>
    /\ durable = EmptyStore
    /\ dbRet = NoRet
    /\ raw = NoRaw
    /\ signedOp = <<>>
    /\ origin = NoOrigin
    /\ verdict = NoVerdict
    /\ gen = NoGen

\* the digests a forger can put in place of the signed one
Digests == {hash(op) : op \in Ops} \cup {0}

\* the values byte number i of an encoded SignedOperation can be changed to
ByteValues(i) ==
    CASE i = 2 -> Keys
      [] i = 3 -> Digests
      [] i = 4 -> {0, 1}
      [] i = 5 -> Address
      [] OTHER -> Nonces

\* operation_to_message: any account (key pair, address, nonce) signs any kind
SignOperation ==
    /\ pc = "sign"
    /\ \E k \in Keys, a \in Address, n \in Nonces, kind \in TxKinds :
        LET acc == [sk |-> k, pk |-> PublicKeyOf(k), address |-> a, nonce |-> n]
            so == signed_operation(acc, kind)
        IN /\ signedOp' = EncodeSignedOp(so)
           /\ origin' = [op |-> so.inner, altered |-> "none"]
    /\ pc' = "signed"
    /\ UNCHANGED <<kernelVars_but_pc, storeVars, genVars, verdict>>

\* a byte of the signature (bytes 2..3) is changed in transit
AlterSignature ==
    /\ pc = "signed"
    /\ \E i \in 2..3 : \E b \in ByteValues(i) \ {signedOp[i]} :
        signedOp' = [signedOp EXCEPT ![i] = b]
    /\ origin' = [origin EXCEPT !.altered = "signature"]
    /\ pc' = "altered"
    /\ UNCHANGED <<kernelVars_but_pc, storeVars, genVars, verdict>>

\* a byte of the encoded Operation (bytes 4..6) is changed in transit
AlterOperation ==
    /\ pc = "signed"
    /\ \E i \in 4..6 : \E b \in ByteValues(i) \ {signedOp[i]} :
        signedOp' = [signedOp EXCEPT ![i] = b]
    /\ origin' = [origin EXCEPT !.altered = "operation"]
    /\ pc' = "altered"
    /\ UNCHANGED <<kernelVars_but_pc, storeVars, genVars, verdict>>

\* decode_from_slice, then signed_op.verify()
Verify ==
    /\ pc \in {"signed", "altered"}
    /\ LET d == DecodeSignedOp(signedOp)
       IN verdict' = IF d.ok THEN verify(d.so) ELSE NoVerdict
    /\ pc' = "verified"
    /\ UNCHANGED <<kernelVars_but_pc, storeVars, genVars, signedOp, origin>>

NextAuth ==
    \/ SignOperation
    \/ AlterSignature
    \/ AlterOperation
    \/ Verify

SpecAuth == InitAuth /\ [][NextAuth]_vars

\* C6: verify of a SignedOperation made by signing op returns op unchanged, and a
\* SignedOperation whose signature was changed, or whose Operation was changed so
\* that its hash changed, fails to verify.
C6_VerifyRoundTrip ==
    pc = "verified" =>
        /\ origin.altered = "none" => verdict = [ok |-> TRUE, op |-> origin.op]
        /\ origin.altered = "signature" => ~verdict.ok
        /\ (origin.altered = "operation"
                /\ hash(DecodeSignedOp(signedOp).so.inner) # hash(origin.op)) => ~verdict.ok

\* an Operation whose nonce was changed after signing was rejected
C6_Witness ==
    /\ pc = "verified"
    /\ origin.altered = "operation"
    /\ DecodeSignedOp(signedOp).ok
    /\ DecodeSignedOp(signedOp).so.inner.nonce # origin.op.nonce
    /\ ~verdict.ok

----
\* The database driven as the execution engine drives it: reads through
\* Database, writes through DatabaseCommit, any host call possibly failing

\* Bounds of the driver
MaxCalls == 2
MaxFaults == 1
MaxFaultAt == 3

\* storage slot keys, and contract codes
Slots == {0, 1}

Codes == {<<5>>, <<6, 7>>}

\* the AccountInfo values a change-set carries: an externally owned account, an
\* account with the all-zero hash, a new contract with its code (hashed by the
\* engine or not yet), and an existing contract whose code was not loaded
NewContract(code) ==
    [balance |-> 0, nonce |-> 0, code_hash |-> hash_slow(code), code |-> Some(code)]

ExistingContract(code) ==
    [balance |-> 1, nonce |-> 0, code_hash |-> hash_slow(code), code |-> None]

CommitInfos ==
    {[balance |-> 1, nonce |-> 0, code_hash |-> KECCAK_EMPTY, code |-> None],
     [balance |-> 0, nonce |-> 0, code_hash |-> ZeroHash, code |-> None],
     [balance |-> 0, nonce |-> 0, code_hash |-> KECCAK_EMPTY, code |-> Some(<<5>>)],
     ExistingContract(<<5>>)}
    \cup {NewContract(c) : c \in Codes}

\* account.storage, in the order the HashMap yields it: the slots the transaction
\* loaded, each with the value it had when loaded and the value it has now; the
\* last delta carries a slot that was read and not written
StorageDeltas ==
    {<<[key |-> 0, original_value |-> 0, present_value |-> 1]>>,
     <<[key |-> 0, original_value |-> 0, present_value |-> 1],
       [key |-> 1, original_value |-> 0, present_value |-> 2]>>,
     <<[key |-> 1, original_value |-> 0, present_value |-> 2],
       [key |-> 0, original_value |-> 0, present_value |-> 1]>>,
     <<[key |-> 0, original_value |-> 0, present_value |-> 1],
       [key |-> 1, original_value |-> 0, present_value |-> 0]>>}

\* revm::state::Account: touched accounts without and with storage changes, a
\* self-destructed account, and an account that is not marked touched
Accounts ==
    {[info |-> i, storage |-> <<>>, touched |-> TRUE, selfdestructed |-> FALSE] :
        i \in CommitInfos}
    \cup {[info |-> i, storage |-> st, touched |-> TRUE, selfdestructed |-> FALSE] :
            i \in {NewContract(<<5>>), ExistingContract(<<5>>)}, st \in StorageDeltas}
    \cup {[info |-> ExistingContract(<<5>>),
           storage |-> <<[key |-> 0, original_value |-> 0, present_value |-> 1]>>,
           touched |-> TRUE, selfdestructed |-> TRUE],
          [info |-> NewContract(<<6, 7>>),
           storage |-> <<[key |-> 0, original_value |-> 0, present_value |-> 1]>>,
           touched |-> FALSE, selfdestructed |-> TRUE]}

\* the accounts of the change-sets that touch two addresses: two new contracts,
\* or a new contract and an account that is not marked touched
PairAccounts ==
    {[info |-> NewContract(c), storage |-> <<>>, touched |-> TRUE,
      selfdestructed |-> FALSE] : c \in Codes}

Pairs ==
    {<<x, y>> : x \in PairAccounts, y \in PairAccounts}
    \cup {<<x, y>> : x \in PairAccounts, y \in {acc \in Accounts : ~acc.touched}}

\* HashMap<Address, Account>, as the sequence its iteration yields
ChangeSets ==
    {<<>>}
    \cup {<<[address |-> a, account |-> acc]>> : a \in Address, acc \in Accounts}
    \cup {<<[address |-> ab[1], account |-> xy[1]], [address |-> ab[2], account |-> xy[2]]>> :
            ab \in {ab \in Address \X Address : ab[1] # ab[2]}, xy \in Pairs}

\* the record of a finished Database call
Returned(op, address, index, code_hash, changes, r) ==
    [calls |-> dbRet.calls + 1,
     faults |-> dbRet.faults + (IF r.ctx.failed THEN 1 ELSE 0),
     op |-> op, address |-> address, index |-> index, code_hash |-> code_hash,
     changes |-> changes, ret |-> r.ret,
     late |-> IF r.ctx.failed THEN r.ctx.served - r.ctx.failed_at ELSE 0]

\* how many host calls of the next Database call succeed before one fails
Budgets == IF dbRet.faults < MaxFaults THEN {-1} \cup 0..MaxFaultAt ELSE {-1}

InitStore ==
    /\ inbox = <<>>
    /\ cursor = 0
    /\ readErrs = 0
    /\ pc = "db"
    /\ cur = InboxEmpty
    /\ pending = NoPending
    /\ db = EmptyCacheDB
    /\ logs = <<>>
    /\ executed = <<>>
    /\ committed = <<>>
    /\ durable = EmptyStore
    /\ dbRet = NoRet
    /\ raw = NoRaw
    /\ signedOp = <<>>
    /\ origin = NoOrigin
    /\ verdict = NoVerdict
    /\ gen = NoGen

Basic ==
    /\ pc = "db"
    /\ dbRet.calls < MaxCalls
    /\ \E address \in Address, budget \in Budgets :
        LET r == basic(HostCtx(durable, budget), address)
        IN /\ durable' = r.ctx.store
           /\ dbRet' = Returned("basic", address, 0, 0, <<>>, r)
    /\ UNCHANGED <<kernelVars, authVars, genVars, raw>>

CodeByHash ==
    /\ pc = "db"
    /\ dbRet.calls < MaxCalls
    /\ \E code_hash \in {hash_slow(c) : c \in Codes} \cup {KECCAK_EMPTY}, budget \in Budgets :
        LET r == code_by_hash(HostCtx(durable, budget), code_hash)
        IN /\ durable' = r.ctx.store
           /\ dbRet' = Returned("code_by_hash", 0, 0, code_hash, <<>>, r)
    /\ UNCHANGED <<kernelVars, authVars, genVars, raw>>

StorageRead ==
    /\ pc = "db"
    /\ dbRet.calls < MaxCalls
    /\ \E address \in Address, index \in Slots, budget \in Budgets :
        LET r == storage(HostCtx(durable, budget), address, index)
        IN /\ durable' = r.ctx.store
           /\ dbRet' = Returned("storage", address, index, 0, <<>>, r)
    /\ UNCHANGED <<kernelVars, authVars, genVars, raw>>

CommitChanges ==
    /\ pc = "db"
    /\ dbRet.calls < MaxCalls
    /\ \E changes \in ChangeSets, budget \in Budgets :
        LET r == commit(HostCtx(durable, budget), changes)
        IN /\ durable' = r.ctx.store
           /\ dbRet' = Returned("commit", 0, 0, 0, changes, r)
    /\ UNCHANGED <<kernelVars, authVars, genVars, raw>>

NextStore ==
    \/ Basic
    \/ CodeByHash
    \/ StorageRead
    \/ CommitChanges

SpecStore == InitStore /\ [][NextStore]_vars

----
\* Properties of the database

\* the step is a call of Database::basic during which no host call failed
BasicCall ==
    /\ dbRet'.calls = dbRet.calls + 1
    /\ dbRet'.op = "basic"
    /\ dbRet'.faults = dbRet.faults

SomeInfo(info) == Ok([NoValue EXCEPT !.is_some = TRUE, !.info = info])

\* what a further read_account of the address returns in the state reached
ReadAgain == basic(HostCtx(durable', -1), dbRet'.address)

\* C10, as stated: read_account of an address whose account key is absent
\* returns the zero-valued AccountRecord, the key exists afterwards, and a second
\* read_account returns the same.
C10_ReadAccountReturnsZeroRecord ==
    [][ (BasicCall /\ Info(dbRet'.address) \notin DOMAIN durable) =>
            /\ dbRet'.ret = SomeInfo(DefaultAccountInfo)
            /\ Info(dbRet'.address) \in DOMAIN durable'
            /\ ReadAgain.ret = dbRet'.ret
      ]_vars

\* C10, amended: read_account of an address whose account key is absent returns
\* None, and writes the zero-valued AccountInfo under the key (nothing else
\* changes); a read_account of an address whose key holds a record returns
\* Some(that record) and writes nothing, so the second read of the address
\* returns Some(zero-valued record).
C10_LazyMaterialization ==
    [][ /\ (BasicCall /\ Info(dbRet'.address) \notin DOMAIN durable) =>
              /\ dbRet'.ret = Ok(NoValue)
              /\ durable' = StorePut(durable, Info(dbRet'.address),
                                     EncodeAccountInfo(DefaultAccountInfo))
              /\ ReadAgain.ret = SomeInfo(DefaultAccountInfo)
              /\ ReadAgain.ctx.store = durable'
        /\ (BasicCall /\ Info(dbRet'.address) \in DOMAIN durable) =>
              /\ durable' = durable
              /\ DecodeAccountInfo(durable[Info(dbRet'.address)]).ok =>
                    dbRet'.ret = SomeInfo(DecodeAccountInfo(durable[Info(dbRet'.address)]).info)
      ]_vars

\* a second read_account found the record the first one materialized
C10_Witness ==
    /\ dbRet.calls = 2
    /\ dbRet.faults = 0
    /\ dbRet.op = "basic"
    /\ dbRet.ret = SomeInfo(DefaultAccountInfo)
    /\ DOMAIN durable = {Info(dbRet.address)}
    /\ durable[Info(dbRet.address)] = EncodeAccountInfo(DefaultAccountInfo)

----
\* store_write and store_read on their own: values of the three types written
\* under a path of their namespace and read back, over a host that can fail

MaxRawCalls == 3

\* AccountInfo, Bytecode and U256 values whose encodings are shorter than a chunk,
\* one chunk long, longer than a chunk and several chunks long
RawInfos ==
    {[balance |-> 1, nonce |-> 0, code_hash |-> KECCAK_EMPTY, code |-> None],
     DefaultAccountInfo,
     NewContract(<<6, 7>>)}

RawCodes == {<<>>, <<5>>, <<6, 7>>, <<5, 6, 7>>}

RawWords == {0, 2}

RawPaths == {Info(1), Code(hash_slow(<<5>>)), Storage(1, 0)}

\* store_write<S>(path, data): the path and the serialized data
Writes ==
    {[path |-> Info(1), bytes |-> EncodeAccountInfo(i)] : i \in RawInfos}
    \cup {[path |-> Code(hash_slow(<<5>>)), bytes |-> EncodeBytecode(c)] : c \in RawCodes}
    \cup {[path |-> Storage(1, 0), bytes |-> EncodeU256(w)] : w \in RawWords}

\* store_read<D>: bincode::serde::decode_from_slice at the type the path holds
DecodeAt(path, buf) ==
    IF path[1] = "i"
    THEN [ok |-> DecodeAccountInfo(buf).ok,
          v |-> [NoValue EXCEPT !.info = DecodeAccountInfo(buf).info]]
    ELSE IF path[1] = "c"
    THEN [ok |-> DecodeBytecode(buf).ok,
          v |-> [NoValue EXCEPT !.code = DecodeBytecode(buf).code]]
    ELSE [ok |-> DecodeU256(buf).ok,
          v |-> [NoValue EXCEPT !.value = DecodeU256(buf).value]]

InitChunks ==
    /\ inbox = <<>>
    /\ cursor = 0
    /\ readErrs = 0
    /\ pc = "chunks"
    /\ cur = InboxEmpty
    /\ pending = NoPending
    /\ db = EmptyCacheDB
    /\ logs = <<>>
    /\ executed = <<>>
    /\ committed = <<>>
    /\ durable = EmptyStore
    /\ dbRet = NoRet
    /\ raw = NoRaw
    /\ signedOp = <<>>
    /\ origin = NoOrigin
    /\ verdict = NoVerdict
    /\ gen = NoGen

StoreWrite ==
    /\ pc = "chunks"
    /\ raw.calls < MaxRawCalls
    /\ \E w \in Writes, budget \in {-1} \cup 0..MaxFaultAt :
        LET c == store_write(HostCtx(durable, budget), w.path, w.bytes)
        IN /\ durable' = c.store
           /\ raw' = [calls |-> raw.calls + 1, op |-> "store_write", path |-> w.path,
                      data |-> w.bytes, status |-> IF c.failed THEN "Err" ELSE "Ok",
                      bytes |-> <<>>]
    /\ UNCHANGED <<kernelVars, authVars, genVars, dbRet>>

StoreRead ==
    /\ pc = "chunks"
    /\ raw.calls < MaxRawCalls
    /\ \E path \in RawPaths, budget \in {-1} \cup 0..MaxFaultAt :
        LET r == store_read(HostCtx(durable, budget), path)
        IN /\ durable' = r.ctx.store
           /\ raw' = [calls |-> raw.calls + 1, op |-> "store_read", path |-> path,
                      data |-> <<>>,
                      status |-> IF r.status = "Some" /\ ~DecodeAt(path, r.bytes).ok
                                 THEN "Err" ELSE r.status,
                      bytes |-> IF r.status = "Some" /\ DecodeAt(path, r.bytes).ok
                                THEN r.bytes ELSE <<>>]
    /\ UNCHANGED <<kernelVars, authVars, genVars, dbRet>>

NextChunks ==
    \/ StoreWrite
    \/ StoreRead

SpecChunks == InitChunks /\ [][NextChunks]_vars

\* a store_write that returned Ok, and a store_read that returned Some
WroteOk == raw'.calls = raw.calls + 1 /\ raw'.op = "store_write" /\ raw'.status = "Ok"

ReadSomeAfterWrite ==
    /\ raw.op = "store_write"
    /\ raw.status = "Ok"
    /\ raw'.calls = raw.calls + 1
    /\ raw'.op = "store_read"
    /\ raw'.path = raw.path
    /\ raw'.status # "Err"

\* C11: store_write(k, v) followed by store_read(k) returns v, for encodings
\* shorter than a chunk, one chunk long, one byte longer and several chunks
\* long; the read reassembles exactly the bytes stored under the path, and on a
\* path that held nothing longer those are exactly the bytes written.
C11_WriteReadRoundTrip ==
    [][ /\ ReadSomeAfterWrite =>
              /\ raw'.status = "Some"
              /\ DecodeAt(raw.path, raw'.bytes) = DecodeAt(raw.path, raw.data)
              /\ DecodeAt(raw.path, raw.data).ok
              /\ raw'.bytes = durable[raw.path]
              /\ durable' = durable
        /\ (WroteOk /\ (raw'.path \notin DOMAIN durable
                          \/ Len(durable[raw'.path]) <= Len(raw'.data))) =>
              durable'[raw'.path] = raw'.data
      ]_vars

\* a value of several chunks was written and read back whole
C11_Witness ==
    /\ raw.calls = 3
    /\ raw.op = "store_read"
    /\ raw.status = "Some"
    /\ raw.path = Info(1)
    /\ raw.bytes = EncodeAccountInfo(NewContract(<<6, 7>>))
    /\ Len(raw.bytes) > 2 * MAX_CHUNK

\* C12: a store_write over a longer value leaves exactly the new bytes under the
\* path (the stored size is that of the new value), and the new value is what a
\* store_read returns.
C12_WriteReplacesValue ==
    [][ (WroteOk /\ raw'.path \in DOMAIN durable
            /\ Len(durable[raw'.path]) > Len(raw'.data)) =>
            /\ durable'[raw'.path] = raw'.data
            /\ store_read(HostCtx(durable', -1), raw'.path).bytes = raw'.data
      ]_vars

----
\* Properties of the database under commits (SpecStore)

\* the step is a Database call of the given kind during which no host call failed
CallOf(op) ==
    /\ dbRet'.calls = dbRet.calls + 1
    /\ dbRet'.op = op
    /\ dbRet'.faults = dbRet.faults

\* ... and no host call has failed before either
CleanCallOf(op) == CallOf(op) /\ dbRet'.faults = 0

\* the change-set committed is one touched, self-destructed account at address a
SelfDestructOf(a) ==
    /\ Len(dbRet'.changes) = 1
    /\ dbRet'.changes[1].address = a
    /\ dbRet'.changes[1].account.touched
    /\ dbRet'.changes[1].account.selfdestructed

SlotPaths(store, a) == {p \in DOMAIN store : IsPrefix(<<"s", a>>, p)}

\* C13: committing a self-destructed account leaves no slot key under its address
\* and every read_storage of it returns zero; a fresh read_account finds no record
\* other than the zero-valued one.
C13_SelfDestructClearsStorage ==
    [][ \A a \in Address :
          (CleanCallOf("commit") /\ SelfDestructOf(a)) =>
              /\ SlotPaths(durable', a) = {}
              /\ \A i \in Slots :
                    LET r == storage(HostCtx(durable', -1), a, i).ret
                    IN r.status = "Ok" /\ r.v.value = 0
              /\ LET b == basic(HostCtx(durable', -1), a).ret
                 IN b.status = "Ok" /\ (b.v.is_some => b.v.info = DefaultAccountInfo)
      ]_vars

\* after the commit of a self-destructed account its slot is still stored and
\* readable, and its account key is gone
C13_Witness ==
    /\ dbRet.calls = 2
    /\ dbRet.faults = 0
    /\ dbRet.op = "commit"
    /\ Len(dbRet.changes) = 1
    /\ dbRet.changes[1].account.touched
    /\ dbRet.changes[1].account.selfdestructed
    /\ Storage(dbRet.changes[1].address, 0) \in DOMAIN durable
    /\ storage(HostCtx(durable, -1), dbRet.changes[1].address, 0).ret.v.value = 1
    /\ Info(dbRet.changes[1].address) \notin DOMAIN durable

\* the store_write calls a commit makes for the code of hash h
RECURSIVE CountWrites(_, _)
CountWrites(written, path) ==
    IF written = <<>> THEN 0
    ELSE (IF Head(written).path = path /\ Head(written).at_offset = 0 THEN 1 ELSE 0)
            + CountWrites(Tail(written), path)

CodeWrites(changes, h) ==
    CountWrites(commit_safe(HostCtx(durable, -1), changes).written, Code(h))

CodeHashes == {hash_slow(c) : c \in Codes}

\* C14: code is written once per distinct hash: a commit writes the code of a hash
\* at most once however many of its accounts carry it, and not at all when the
\* code namespace already holds the hash; there is one entry per hash.
C14_CodeWrittenOnce ==
    [][ CleanCallOf("commit") =>
          \A h \in CodeHashes :
              /\ CodeWrites(dbRet'.changes, h) <= 1
              /\ Code(h) \in DOMAIN durable => CodeWrites(dbRet'.changes, h) = 0
              /\ Cardinality({p \in NamespacePaths(durable', "c") : p[2] = h}) <= 1
      ]_vars

\* two addresses were committed with the same code: one entry in the code namespace
C14_Witness ==
    /\ dbRet.faults = 0
    /\ dbRet.op = "commit"
    /\ Len(dbRet.changes) = 2
    /\ dbRet.changes[1].account.info = dbRet.changes[2].account.info
    /\ Cardinality(NamespacePaths(durable, "c")) = 1
    /\ Cardinality(NamespacePaths(durable, "i")) = 2

\* C15: a host failure during a read or a commit comes back as an error of the
\* call, which abandons the transaction in flight; it never ends the kernel.
C15_StoreErrorNotFatal ==
    [][ (dbRet'.calls = dbRet.calls + 1 /\ dbRet'.faults > dbRet.faults) =>
            dbRet'.ret.status = "Err"
      ]_vars

\* a read that hit a host failure returned its error to the caller
C15_Witness ==
    /\ dbRet.faults = 1
    /\ dbRet.op \in {"basic", "storage", "code_by_hash"}
    /\ dbRet.ret = Err("DurableStorage")

\* the balance, nonce and code hash of the AccountInfo stored for address a
RecordOf(store, a) ==
    LET info == DecodeAccountInfo(store[Info(a)]).info
    IN <<info.balance, info.nonce, info.code_hash>>

\* C17: read_storage of an absent slot of an address whose account key exists
\* returns zero; the address's record (balance, nonce, code hash) and every other
\* key of the store are as before.
C17_AbsentSlotReadWritesNothing ==
    [][ (CleanCallOf("storage")
            /\ Storage(dbRet'.address, dbRet'.index) \notin DOMAIN durable
            /\ Info(dbRet'.address) \in DOMAIN durable) =>
            /\ dbRet'.ret.status = "Ok"
            /\ dbRet'.ret.v.value = 0
            /\ DOMAIN durable' = DOMAIN durable
            /\ RecordOf(durable', dbRet'.address) = RecordOf(durable, dbRet'.address)
            /\ \A p \in DOMAIN durable \ {Info(dbRet'.address)} : durable'[p] = durable[p]
      ]_vars

\* a read_storage left the zero-valued record under an account key
C17_Witness ==
    /\ dbRet.calls = 2
    /\ dbRet.faults = 0
    /\ dbRet.op = "storage"
    /\ dbRet.ret.status = "Ok"
    /\ durable[Info(dbRet.address)] = EncodeAccountInfo(DefaultAccountInfo)

\* C18: read_storage of a slot of an address that was never touched writes the
\* zero-valued AccountInfo under the address's key and returns zero.
C18_AbsentAddressMaterialized ==
    [][ (CleanCallOf("storage")
            /\ Storage(dbRet'.address, dbRet'.index) \notin DOMAIN durable
            /\ Info(dbRet'.address) \notin DOMAIN durable) =>
            /\ dbRet'.ret.status = "Ok"
            /\ dbRet'.ret.v.value = 0
            /\ Info(dbRet'.address) \in DOMAIN durable'
            /\ durable'[Info(dbRet'.address)] = EncodeAccountInfo(DefaultAccountInfo)
      ]_vars

\* C19: an account key that exists still exists after any read_account,
\* read_storage, read_code or commit during which no host call failed.
C19_AccountKeyNeverRemoved ==
    [][ dbRet'.faults = 0 =>
            \A a \in Address : Info(a) \in DOMAIN durable => Info(a) \in DOMAIN durable'
      ]_vars

\* C20: read_code of a hash with no entry in the code namespace fails with
\* MissingCode carrying that hash and leaves the store as it was.
C20_MissingCode ==
    [][ (CallOf("code_by_hash") /\ Code(dbRet'.code_hash) \notin DOMAIN durable) =>
            /\ dbRet'.ret = MissingCode(dbRet'.code_hash)
            /\ durable' = durable
      ]_vars

\* a read_code missed while the code namespace held another hash
C20_Witness ==
    /\ dbRet.calls = 2
    /\ dbRet.faults = 0
    /\ dbRet.op = "code_by_hash"
    /\ dbRet.ret = MissingCode(dbRet.code_hash)
    /\ NamespacePaths(durable, "c") # {}
    /\ Code(dbRet.code_hash) \notin DOMAIN durable

----
\* Property of the kernel loop on failed transactions (Spec)

\* C16: when the engine rejects a transaction, or reverts or halts it, the kernel
\* logs an Error, the engine's state is as before the transaction, and the loop
\* goes on to emit and read.
C16_FailedTransactionNotCommitted ==
    [][ /\ (pc = "transact" /\ pc' = "emit") =>
              /\ cur'.kind = "Log"
              /\ cur'.log.tag = "Error"
              /\ db' = db
        /\ (pc = "commit" /\ pending.result \in {"Revert", "Halt"}) =>
              /\ cur'.kind = "Log"
              /\ cur'.log.tag = "Error"
              /\ pc' = "emit"
              /\ db' = db
      ]_vars

\* a reverted transaction was logged as an error and its caller's nonce moved
C16_Witness ==
    /\ pc = "read"
    /\ Len(logs) = 1
    /\ logs[1] = LogType("Error", "Smart contract execution reverted")
    /\ Len(executed) = 1
    /\ db.nonce[executed[1].tx.caller] = executed[1].tx.nonce + 1

----
\* Properties of the code and account namespaces (SpecStore)

\* the step is a commit, whether or not a host call failed during it
CommitStep ==
    /\ dbRet'.calls = dbRet.calls + 1
    /\ dbRet'.op = "commit"

\* a change-set the engine can hand to commit on this store: an account whose
\* code it did not load carries the code hash of the record it read from the
\* store (or the empty or zero hash)
EngineChanges(store, changes) ==
    \A i \in 1..Len(changes) :
        LET info == changes[i].account.info
            path == Info(changes[i].address)
        IN \/ info.code.some
           \/ info.code_hash \in {KECCAK_EMPTY, ZeroHash}
           \/ /\ path \in DOMAIN store
              /\ DecodeAccountInfo(store[path]).ok
              /\ DecodeAccountInfo(store[path]).info.code_hash = info.code_hash

\* every persisted record with a code hash other than the empty one has its code
\* readable under that hash
CodePresent(store) ==
    \A p \in NamespacePaths(store, "i") :
        LET d == DecodeAccountInfo(store[p])
        IN (d.ok /\ d.info.code_hash # KECCAK_EMPTY) =>
                code_by_hash(HostCtx(store, -1), d.info.code_hash).ret.status = "Ok"

\* the accounts of the change-set that deploy code: touched, not self-destructed,
\* carrying non-empty code
Deploys(changes) ==
    {i \in 1..Len(changes) :
        /\ changes[i].account.touched
        /\ ~changes[i].account.selfdestructed
        /\ changes[i].account.info.code.some
        /\ ~is_empty(changes[i].account.info.code.bytes)}

\* C21: whatever Database calls are made, host failures included, as long as the
\* change-sets are the engine's, every persisted record with a non-empty code
\* hash keeps its code readable under that hash, and after a commit that
\* succeeded read_code on the hash recorded for a deploying account returns the
\* code the change-set carried.
C21_DeployedCodePresent ==
    [][ LET changes == dbRet'.changes
        IN (/\ CodePresent(durable)
            /\ CommitStep => EngineChanges(durable, changes)) =>
            /\ CodePresent(durable')
            /\ (CommitStep /\ dbRet'.ret.status = "Ok") =>
                    \A i \in Deploys(changes) :
                        LET d == DecodeAccountInfo(durable'[Info(changes[i].address)])
                        IN /\ d.ok
                           /\ d.info.code_hash # KECCAK_EMPTY
                           /\ code_by_hash(HostCtx(durable', -1), d.info.code_hash).ret.v.code
                                = changes[i].account.info.code.bytes
      ]_vars

\* a second commit wrote the record of an existing contract whose code the first
\* commit had deployed
C21_Witness ==
    /\ dbRet.calls = 2
    /\ dbRet.op = "commit"
    /\ dbRet.ret.status = "Ok"
    /\ Len(dbRet.changes) = 1
    /\ ~dbRet.changes[1].account.info.code.some
    /\ dbRet.changes[1].account.info.code_hash = hash_slow(<<5>>)
    /\ Info(dbRet.changes[1].address) \in DOMAIN durable
    /\ durable[Info(dbRet.changes[1].address)]
            = EncodeAccountInfo(ExistingContract(<<5>>))
    /\ code_by_hash(HostCtx(durable, -1), hash_slow(<<5>>)).ret.v.code = <<5>>

\* the key is in the store after the step exactly if it was before, with the
\* same bytes
SameAt(p) ==
    /\ p \in DOMAIN durable' <=> p \in DOMAIN durable
    /\ p \in DOMAIN durable => durable'[p] = durable[p]

\* C22: a commit, failing or not, leaves the account key and the slot keys of
\* every account of the change-set that is not marked touched as they were, and
\* its code key too unless a touched account carries the same code; a change-set
\* with no touched account leaves the whole store as it was.
C22_UntouchedSkipped ==
    [][ LET changes == dbRet'.changes
        IN CommitStep =>
            /\ \A i \in 1..Len(changes) :
                 ~changes[i].account.touched =>
                    /\ SameAt(Info(changes[i].address))
                    /\ \A k \in Slots : SameAt(Storage(changes[i].address, k))
                    /\ (\A j \in Deploys(changes) :
                            changes[j].account.info.code_hash
                                # changes[i].account.info.code_hash) =>
                          SameAt(Code(changes[i].account.info.code_hash))
            /\ (\A i \in 1..Len(changes) : ~changes[i].account.touched) =>
                    durable' = durable
      ]_vars

\* a commit carried a touched account and, for an address that had a record, an
\* account not marked touched with a self-destructed flag, new code and a slot
C22_Witness ==
    /\ dbRet.calls = 2
    /\ dbRet.op = "commit"
    /\ dbRet.ret.status = "Ok"
    /\ Len(dbRet.changes) = 2
    /\ dbRet.changes[1].account.touched
    /\ ~dbRet.changes[2].account.touched
    /\ dbRet.changes[2].account.selfdestructed
    /\ Info(dbRet.changes[1].address) \in DOMAIN durable
    /\ Info(dbRet.changes[2].address) \in DOMAIN durable
    /\ RecordOf(durable, dbRet.changes[2].address) = <<0, 0, hash_slow(<<5>>)>>
    /\ Code(hash_slow(<<6, 7>>)) \notin DOMAIN durable

\* C23: in every reachable store state, every record under the account namespace
\* carries no code bytes: its code field is None (a record commit wrote) or the
\* empty Bytecode of AccountInfo::default() (a record insert_new_account wrote).
C23_NoCodeInAccountNamespace ==
    \A p \in NamespacePaths(durable, "i") :
        LET d == DecodeAccountInfo(durable[p])
        IN d.ok => (~d.info.code.some \/ is_empty(d.info.code.bytes))

\* a commit deployed a contract: its record has a code hash and no code, the code
\* is in the code namespace, and another address holds a materialized record
C23_Witness ==
    /\ dbRet.calls = 2
    /\ dbRet.faults = 0
    /\ dbRet.op = "commit"
    /\ Len(dbRet.changes) = 1
    /\ dbRet.changes[1].account.info = NewContract(<<6, 7>>)
    /\ dbRet.changes[1].account.touched
    /\ ~dbRet.changes[1].account.selfdestructed
    /\ durable[Info(dbRet.changes[1].address)]
            = EncodeAccountInfo([NewContract(<<6, 7>>) EXCEPT !.code = None])
    /\ Code(hash_slow(<<6, 7>>)) \in DOMAIN durable
    /\ \E a \in Address : /\ Info(a) \in DOMAIN durable
                          /\ durable[Info(a)] = EncodeAccountInfo(DefaultAccountInfo)

----
\* Property of the storage namespace under commits (SpecStore)

\* EvmStorageSlot::is_changed
is_changed(slot) == slot.original_value # slot.present_value

\* C24: a commit during which no host call fails, of one touched account that is
\* not self-destructed, leaves each slot the delta modified under (address, key)
\* with its present value and every other slot key of the store as it was: a
\* slot the delta only read is not materialized.
C24_OnlyModifiedSlotsWritten ==
    [][ LET changes == dbRet'.changes
        IN (/\ CommitStep
            /\ dbRet'.faults = 0
           /\ Len(changes) = 1
           /\ changes[1].account.touched
           /\ ~changes[1].account.selfdestructed) =>
            LET storage_ == changes[1].account.storage
                modified == {j \in 1..Len(storage_) : is_changed(storage_[j])}
            IN /\ \A j \in modified :
                    /\ Storage(changes[1].address, storage_[j].key) \in DOMAIN durable'
                    /\ durable'[Storage(changes[1].address, storage_[j].key)]
                            = EncodeU256(storage_[j].present_value)
               /\ \A a \in Address, k \in Slots :
                    (a # changes[1].address \/ \A j \in modified : storage_[j].key # k) =>
                        SameAt(Storage(a, k))
      ]_vars

\* a commit whose delta wrote slot 0 and only read slot 1 left a value under
\* both slot keys
C24_Witness ==
    /\ dbRet.calls = 1
    /\ dbRet.faults = 0
    /\ dbRet.op = "commit"
    /\ Len(dbRet.changes) = 1
    /\ dbRet.changes[1].account.storage
            = <<[key |-> 0, original_value |-> 0, present_value |-> 1],
                [key |-> 1, original_value |-> 0, present_value |-> 0]>>
    /\ durable[Storage(dbRet.changes[1].address, 0)] = EncodeU256(1)
    /\ durable[Storage(dbRet.changes[1].address, 1)] = EncodeU256(0)

----
\* Property of the database when the host fails (SpecStore)

\* C25: when a host call fails during a Database call, the host serves no call
\* after the failing one (no later chunk is read or written, and within commit no
\* later write is made), and the call returns a store error and no value (commit
\* unwraps the error).
C25_HostFailureAborts ==
    [][ (dbRet'.calls = dbRet.calls + 1 /\ dbRet'.faults = dbRet.faults + 1) =>
            /\ dbRet'.late = 0
            /\ dbRet'.ret.error = "DurableStorage"
            /\ dbRet'.ret.status = IF dbRet'.op = "commit" THEN "Panic" ELSE "Err"
            /\ dbRet'.ret.v = NoValue
      ]_vars

\* a commit of two contracts failed after the first contract's code and record
\* were written: the second contract's code or record is not in the store
C25_Witness ==
    /\ dbRet.calls = 1
    /\ dbRet.faults = 1
    /\ dbRet.op = "commit"
    /\ dbRet.ret.status = "Panic"
    /\ Len(dbRet.changes) = 2
    /\ dbRet.changes[2].account.touched
    /\ Info(dbRet.changes[1].address) \in DOMAIN durable
    /\ Code(dbRet.changes[1].account.info.code_hash) \in DOMAIN durable
    /\ Info(dbRet.changes[2].address) \notin DOMAIN durable

----
\* The paths of the three namespaces in the host's store: values written through
\* host.store_write at formatted paths and the account key deleted through
\* host.store_delete, as store_write and clear_storage do

\* Bound of the driver
MaxPathCalls == 3

\* addresses, code hashes and slot keys whose texts share digits
PathAddresses == {1, 2, 17, 18}

PathHashes == {1, 17, 273}

PathKeys == {0, 1, 2, 11, 12}

PathBuilders ==
    {Info(a) : a \in PathAddresses}
    \cup {Code(h) : h \in PathHashes}
    \cup {Storage(a, k) : a \in PathAddresses, k \in PathKeys}

\* the text and the segments of every path, formatted once
PathText == [path \in PathBuilders |-> format(path)]

PathSegments == [path \in PathBuilders |-> Segments(format(path))]

InitPaths ==
    /\ inbox = <<>>
    /\ cursor = 0
    /\ readErrs = 0
    /\ pc = "paths"
    /\ cur = InboxEmpty
    /\ pending = NoPending
    /\ db = EmptyCacheDB
    /\ logs = <<>>
    /\ executed = <<>>
    /\ committed = <<>>
    /\ durable = EmptyStore
    /\ dbRet = NoRet
    /\ raw = NoRaw
    /\ signedOp = <<>>
    /\ origin = NoOrigin
    /\ verdict = NoVerdict
    /\ gen = NoGen

\* self.host.store_write(&path.format(), chunk, 0): the value names the
\* PathBuilder it was written for
WritePath ==
    /\ pc = "paths"
    /\ raw.calls < MaxPathCalls
    /\ \E path \in PathBuilders :
        LET c == host_store_write(HostCtx(durable, -1), PathSegments[path], <<path>>, 0)
        IN /\ durable' = c.store
           /\ raw' = [calls |-> raw.calls + 1, op |-> "store_write", path |-> path,
                      data |-> PathText[path], status |-> "Ok", bytes |-> <<>>]
    /\ UNCHANGED <<kernelVars, authVars, genVars, dbRet>>

\* clear_storage: self.host.store_delete(&PathBuilder::Info(address).format())
DeletePath ==
    /\ pc = "paths"
    /\ raw.calls < MaxPathCalls
    /\ \E address \in PathAddresses :
        LET c == host_store_delete(HostCtx(durable, -1), PathSegments[Info(address)])
        IN /\ durable' = c.store
           /\ raw' = [calls |-> raw.calls + 1, op |-> "store_delete",
                      path |-> Info(address), data |-> PathText[Info(address)],
                      status |-> IF c.failed THEN "Err" ELSE "Ok", bytes |-> <<>>]
    /\ UNCHANGED <<kernelVars, authVars, genVars, dbRet>>

NextPaths ==
    \/ WritePath
    \/ DeletePath

SpecPaths == InitPaths /\ [][NextPaths]_vars

\* the directory a path lies in
Parent(segments) == SubSeq(segments, 1, Len(segments) - 1)

\* the keys of the store that hold a value written for the PathBuilders in S
KeysOf(store, S) == {k \in DOMAIN store : store[k][1] \in S}

\* C26: the texts of two different paths differ, within a namespace and across
\* namespaces, so a write at one path leaves the value at every other path as it
\* was; the slot keys of an address lie in one directory, and deleting that
\* directory removes the slot keys of that address and no other key; deleting an
\* account key removes no other key.
C26_NamespacesDisjoint ==
    [][ /\ (raw'.calls = raw.calls + 1 /\ raw'.op = "store_write") =>
              /\ \A other \in PathBuilders \ {raw'.path} :
                    /\ PathText[other] # PathText[raw'.path]
                    /\ PathSegments[other] # PathSegments[raw'.path]
              /\ \A k \in DOMAIN durable :
                    durable[k] # <<raw'.path>> => (k \in DOMAIN durable' /\ durable'[k] = durable[k])
              /\ \A a \in PathAddresses :
                    LET dir == Parent(PathSegments[Storage(a, 0)])
                        rest == host_store_delete(HostCtx(durable', -1), dir).store
                    IN /\ \A k \in PathKeys : Parent(PathSegments[Storage(a, k)]) = dir
                       /\ DOMAIN durable' \ DOMAIN rest
                            = KeysOf(durable', {Storage(a, k) : k \in PathKeys})
        /\ (raw'.calls = raw.calls + 1 /\ raw'.op = "store_delete") =>
              DOMAIN durable \ DOMAIN durable' = KeysOf(durable, {raw'.path})
      ]_vars

\* the store held the account key of address 0x01 and slot 12 of that address;
\* the account key was deleted and the slot is still there
C26_Witness ==
    /\ raw.calls = 3
    /\ raw.op = "store_delete"
    /\ raw.status = "Ok"
    /\ raw.path = Info(1)
    /\ KeysOf(durable, {Storage(1, 12)}) # {}
    /\ Cardinality(DOMAIN durable) = 1

----
\* Properties of the code namespace (SpecStore)

\* every entry of the code namespace holds the encoding of a code whose hash is
\* the hash it is stored under
ContentAddressed(store) ==
    \A p \in NamespacePaths(store, "c") :
        /\ DecodeBytecode(store[p]).ok
        /\ EncodeBytecode(DecodeBytecode(store[p]).code) = store[p]
        /\ hash_slow(DecodeBytecode(store[p]).code) = p[2]

\* the step leaves every entry of the code namespace as it was
CodeKept ==
    \A p \in NamespacePaths(durable, "c") : p \in DOMAIN durable' /\ durable'[p] = durable[p]

----
\* Property of the kernel loop's log (Spec)

\* the number of reads that returned a message or failed: the inbox results other
\* than InboxEmpty
Processed == cursor + readErrs

\* C28: every inbox result other than InboxEmpty is followed by exactly one log
\* record, after which the loop reads again: between two reads the log grows by
\* one record, written by the emit step.  A log-only result is emitted as it is;
\* for a transaction a successful create gives Deploy, a successful call Execute
\* with the returned bytes, a revert or a halt Error, and an engine failure Error.
C28_OneLogPerMessage ==
    /\ [](Len(logs) = IF pc \in {"read", "done"} THEN Processed ELSE Processed - 1)
    /\ [][ /\ pc = "emit" => (logs' = Append(logs, cur.log) /\ pc' = "read")
           /\ pc # "emit" => logs' = logs
           /\ (pc = "read" /\ cur'.kind = "Log") => pc' = "emit"
           /\ (pc = "read" /\ cur'.kind = "TxEnv") => pc' = "transact"
           /\ (pc = "transact" /\ pc' = "emit") =>
                 (cur'.kind = "Log" /\ cur'.log.tag = "Error")
           /\ (pc = "transact" /\ pc' # "emit") => (pc' = "commit" /\ cur' = cur)
           /\ pc = "commit" =>
                 /\ pc' = "emit"
                 /\ cur'.kind = "Log"
                 /\ pending.result = "SuccessCreate" => cur'.log = LogType("Deploy", "")
                 /\ pending.result = "SuccessCall" => cur'.log = LogType("Execute", "bytes")
                 /\ pending.result \in {"Revert", "Halt"} => cur'.log.tag = "Error"
         ]_vars

\* two messages were processed, a deploy and a call, and the log holds a Deploy
\* record and an Execute record, in that order
C28_Witness ==
    /\ pc = "read"
    /\ cursor = 2
    /\ readErrs = 0
    /\ Len(logs) = 2
    /\ logs[1] = LogType("Deploy", "")
    /\ logs[2] = LogType("Execute", "bytes")

----
\* The benchmark generator (bench/src/generate.rs): create_operations, one step
\* per message pushed

\* Bound of the generator: the largest number of transfers requested
MaxTransfers == 12

InitGen ==
    /\ inbox = <<>>
    /\ cursor = 0
    /\ readErrs = 0
    /\ pc = "generate"
    /\ cur = InboxEmpty
    /\ pending = NoPending
    /\ db = EmptyCacheDB
    /\ logs = <<>>
    /\ executed = <<>>
    /\ committed = <<>>
    /\ durable = EmptyStore
    /\ dbRet = NoRet
    /\ raw = NoRaw
    /\ signedOp = <<>>
    /\ origin = NoOrigin
    /\ verdict = NoVerdict
    /\ \E transfers \in 0..MaxTransfers :
        LET len == accounts_for_transfers(transfers)
        IN gen = [NoGen EXCEPT !.transfers = transfers, !.len = len, !.phase = "deploy",
                               !.accounts = [i \in 1..len |-> Account(i - 1)]]

\* messages.push(minter.operation_to_message(rollup_addr, TxKind::Create, bytecode))
Deploy ==
    /\ pc = "generate"
    /\ gen.phase = "deploy"
    /\ gen' = [gen EXCEPT
                !.messages = Append(@, Pushed("deploy", 0, 0, gen.minter, "Create")),
                !.minter = Bumped(@),
                !.phase = "mint"]
    /\ UNCHANGED <<kernelVars, storeVars, authVars>>

\* for acc in &accounts: the minter calls mint(acc.address, len + 1)
Mint ==
    /\ pc = "generate"
    /\ gen.phase = "mint"
    /\ gen' = [gen EXCEPT
                !.messages = Append(@, Pushed("mint", gen.accounts[gen.i + 1].address,
                                              gen.len + 1, gen.minter, "Call")),
                !.minter = Bumped(@),
                !.i = IF gen.i + 1 = gen.len THEN 0 ELSE gen.i + 1,
                !.phase = IF gen.i + 1 = gen.len THEN "transfer" ELSE "mint",
                !.expected_len = Len(gen.messages) + 1 + gen.transfers]
    /\ UNCHANGED <<kernelVars, storeVars, authVars>>

\* 'outer: for token_id in 0..len, for (from, amount) in
\* (token_id..token_id + len).zip(1..len): iter counts the inner iterations made
Transfer ==
    /\ pc = "generate"
    /\ gen.phase = "transfer"
    /\ gen.iter < gen.len * (gen.len - 1)
    /\ gen.expected_len # Len(gen.messages)
    /\ LET token_id == gen.iter \div (gen.len - 1)
           step == gen.iter % (gen.len - 1)
           from == token_id + step
           amount == 1 + step
           sender == (from % gen.len) + 1
           to == ((from + 1) % gen.len) + 1
       IN gen' = [gen EXCEPT
                    !.messages = Append(@, Pushed("transfer", gen.accounts[to].address,
                                                  gen.len - amount, gen.accounts[sender],
                                                  "Call")),
                    !.accounts[sender] = Bumped(@),
                    !.iter = @ + 1]
    /\ UNCHANGED <<kernelVars, storeVars, authVars>>

\* break 'outer, or the end of the outer loop
TransfersEnd ==
    /\ pc = "generate"
    /\ gen.phase = "transfer"
    /\ gen.iter = gen.len * (gen.len - 1) \/ gen.expected_len = Len(gen.messages)
    /\ gen' = [gen EXCEPT !.phase = "balance"]
    /\ UNCHANGED <<kernelVars, storeVars, authVars>>

\* for acc in &accounts: the minter calls balanceOf(acc.address); Ok(messages)
BalanceCheck ==
    /\ pc = "generate"
    /\ gen.phase = "balance"
    /\ gen' = [gen EXCEPT
                !.messages = Append(@, Pushed("balanceOf", gen.accounts[gen.i + 1].address,
                                              0, gen.minter, "Call")),
                !.minter = Bumped(@),
                !.i = gen.i + 1,
                !.phase = IF gen.i + 1 = gen.len THEN "done" ELSE "balance"]
    /\ UNCHANGED <<kernelVars, storeVars, authVars>>

NextGen ==
    \/ Deploy
    \/ Mint
    \/ Transfer
    \/ TransfersEnd
    \/ BalanceCheck

SpecGen == InitGen /\ [][NextGen]_vars

\* the TxEnv of the i-th message
TxOf(i) == gen.messages[i].tx

\* C29: the nonce of each message pushed so far is the number of earlier messages
\* of its caller, and the message is the signed, framed encoding of its TxEnv; when
\* create_operations returns for n transfers with a = accounts_for_transfers(n)
\* accounts, it has pushed 1 deploy, a mints, n transfers and a balance checks,
\* in that order, 1 + 2a + n in all, the count check_counts asks for and the
\* positions logs_to_levels reads them at; the loops can make a * (a - 1) >= n
\* transfers.
C29_GeneratedOperations ==
    LET n == gen.transfers
        a == gen.len
        msgs == gen.messages
    IN /\ \A i \in 1..Len(msgs) :
            /\ TxOf(i).nonce
                = Cardinality({j \in 1..(i - 1) : TxOf(j).caller = TxOf(i).caller})
            /\ TxOf(i).kind = IF i = 1 THEN "Create" ELSE "Call"
            /\ FrameParse(Tail(msgs[i].message)).address = RollupAddress
            /\ FrameParse(Tail(msgs[i].message)).contents
                = EncodeSignedOp(SignedOperationNew(
                        PublicKeyOf(TxOf(i).caller),
                        sign(TxOf(i).caller, hash(TxOf(i))), TxOf(i)))
       /\ gen.phase = "done" =>
            /\ a = accounts_for_transfers(n)
            /\ a * (a - 1) >= n
            /\ Len(msgs) = 1 + 2 * a + n
            /\ \A i \in 1..Len(msgs) :
                 msgs[i].call = IF i = 1 THEN "deploy"
                                ELSE IF i <= 1 + a THEN "mint"
                                ELSE IF i <= 1 + a + n THEN "transfer"
                                ELSE "balanceOf"
            /\ \A i \in 1..Len(msgs) :
                 TxOf(i).caller = MINTER <=> msgs[i].call # "transfer"

\* create_operations returned the 14 messages of 5 transfers among 4 accounts
C29_Witness ==
    /\ gen.phase = "done"
    /\ gen.transfers = 5
    /\ gen.len = 4
    /\ Len(gen.messages) = 14
    /\ gen.messages[6].call = "transfer"
    /\ gen.messages[10].call = "transfer"
    /\ gen.messages[11].call = "balanceOf"
====
